---- MODULE Spec2Model ----
(***************************************************************************)
(* Model of src/src/snacdb/curation_redundant.py: the redundancy curation  *)
(* of one PDB group (remove_redundant_data calling                         *)
(* run_foldseek_comparison), the priority score (structure_priority) and   *)
(* the CSV update at the end of main.                                      *)
(*                                                                         *)
(* Structure names "<pdb>-<TYPE><n>" are records [type, num]: type is what *)
(* the '-BIO' / '-ASU' substring tests see, num is what int(...) parses    *)
(* (NoNum when int() raises).  TM-scores are integers in units of 1/10000, *)
(* so 0.999 is 9990 and 1.0 is 10000.                                      *)
(***************************************************************************)
EXTENDS Integers, Sequences, FiniteSets, TLC

VARIABLES
    args_tm_threshold,   \* main: args.tm_threshold (argparse, --tm_threshold)
    struct_list,         \* the group's structure names (master_dict[pdb])
    pdb_files,           \* structures whose <struct>.pdb exists in path
    npy_files,           \* structures whose <struct>-atom37.npy exists in path
    pc,                  \* position in remove_redundant_data / run_foldseek_comparison
    tm_threshold,        \* run_foldseek_comparison: parameter tm_threshold
    pdb_tmp,             \* whether the directory tmp_dir/<pdb_id> exists
    valid_structures,    \* run_foldseek_comparison: valid_structures
    oracle_calls,        \* number of subprocess.run(cmd) invocations
    oracle_outcome,      \* how the last invocation ended
    rows_read,           \* lines of the report file consumed so far
    last_row,            \* the line consumed last, and whether it became a pair
    rows_above,          \* history: some line read so far was well-formed, between
                         \* two different ids, with a score above tm_threshold
    redundant_pairs,     \* run_foldseek_comparison: redundant_pairs
    completeness,        \* what get_structure_completeness returned per structure
    struct_priority_map, \* run_foldseek_comparison: struct_priority_map
    idx,                 \* position of the greedy loop in redundant_pairs
    to_remove,           \* run_foldseek_comparison / remove_redundant_data: to_remove
    pending,             \* members of to_remove the removal loop has not visited
    removed_pdb,         \* structures whose .pdb os.remove deleted
    removed_npy,         \* structures whose .npy os.remove deleted
    removed_details,     \* remove_redundant_data: removed_details
    summary,             \* the string remove_redundant_data returned
    prio_in,             \* structure_priority: the two structures being scored
    prio_out,            \* structure_priority: their scores
    csv_file,            \* the metadata table on disk
    leftover_files,      \* main: leftover_files
    outputs              \* the tables successive updates persisted

vars == <<args_tm_threshold, struct_list, pdb_files, npy_files, pc, tm_threshold,
          pdb_tmp, valid_structures, oracle_calls, oracle_outcome, rows_read,
          last_row, rows_above, redundant_pairs, completeness, struct_priority_map,
          idx, to_remove, pending, removed_pdb, removed_npy, removed_details, summary,
          prio_in, prio_out, csv_file, leftover_files, outputs>>

groupVars == <<args_tm_threshold, struct_list, pdb_files, npy_files, pc, tm_threshold,
          pdb_tmp, valid_structures, oracle_calls, oracle_outcome, rows_read,
          last_row, rows_above, redundant_pairs, completeness, struct_priority_map,
          idx, to_remove, pending, removed_pdb, removed_npy, removed_details, summary>>

prioVars == <<prio_in, prio_out>>

csvVars == <<csv_file, leftover_files, outputs>>

-----------------------------------------------------------------------------
(* Bounds and input domains                                                *)

\* Longest report file the oracle writes.
MaxRows == 3

\* int(...) raised: no instance number.
NoNum == -1

BIO1 == [type |-> "BIO", num |-> 1]
BIO2 == [type |-> "BIO", num |-> 2]
ASU1 == [type |-> "ASU", num |-> 1]

\* The structure names of group 1ABC.
Structs == {BIO1, BIO2, ASU1}

\* (total_residues, missing_residues) as get_structure_completeness returns
\* them; <<0, 0>> is its except branch.
Completeness == {<<0, 0>>, <<100, 0>>, <<100, 5>>}

\* (complexqtmscore, complexttmscore) of a report line.
TMPairs == {<<9900, 9900>>, <<9990, 9900>>, <<9900, 9990>>,
            <<10000, 9900>>, <<9900, 10000>>}

\* Values of --tm_threshold; the second is the option's default.
ArgThresholds == {9900, 9990}

\* Inputs of structure_priority when it is checked on its own: instance
\* numbers (NoNum: int() raised) and residue counts.
PrioNums == {NoNum, 1, 2, 101}
PrioTotals == {99, 100, 101}
PrioMissing == {0, 4, 5}

\* Most rows of the metadata table.
MaxCsvRows == 3

\* A Bioassembly cell that read_csv parsed as NaN; the other cells are
\* positive numbers.
NaN == 0

\* Values of the Bioassembly column.
BioValues == {NaN, 1, 2}

-----------------------------------------------------------------------------
(* structure_priority                                                      *)

W_RESIDUE == 500
W_MISSING == 100
BONUS_BIO == 1000
BONUS_ASU == 500

TypeBonus(type) ==
    IF type = "BIO" THEN BONUS_BIO
    ELSE IF type = "ASU" THEN BONUS_ASU
    ELSE 0

NumPenalty(type, num) ==
    IF type \in {"BIO", "ASU"} /\ num # NoNum THEN num ELSE 0

structure_priority(struct, comp) ==
    comp[1] * W_RESIDUE - comp[2] * W_MISSING
        + TypeBonus(struct.type) - NumPenalty(struct.type, struct.num)

-----------------------------------------------------------------------------
(* run_foldseek_comparison: helpers                                        *)

\* tm_threshold=0.999 in the signature.
DEFAULT_TM_THRESHOLD == 9990

Max(a, b) == IF a >= b THEN a ELSE b

NoRow == [row |-> [kind |-> "none"], edge |-> FALSE]

\* A report line: well-formed ("ok"), with fewer than 6 fields ("short"),
\* or with a score float() rejects ("nonnumeric").
ReportRows(valid) ==
    [kind : {"ok"}, query : valid, target : valid, tm : TMPairs]
        \cup {[kind |-> k, query |-> q, target |-> q, tm |-> <<9900, 9900>>] :
                 k \in {"short", "nonnumeric"}, q \in {CHOOSE s \in valid : TRUE}}

\* max_tm > tm_threshold
IsRedundantGE(max_tm, threshold) == max_tm >= threshold

IsRedundant(max_tm, threshold) == max_tm > threshold

\* Whether the body of the read loop appends for this line.
Appends(row, threshold) ==
    /\ row.kind # "short"
    /\ row.query # row.target
    /\ row.kind # "nonnumeric"
    /\ IsRedundant(Max(row.tm[1], row.tm[2]), threshold)

\* if query in to_remove or target in to_remove: continue
SkipQueryOnly(query, target, removed) == query \in removed

Skip(query, target, removed) == query \in removed \/ target \in removed

\* struct_priority_map.get(s, 0)
Get(map, s) == IF s \in DOMAIN map THEN map[s] ELSE 0

\* The structure the greedy loop adds to to_remove for a pair.
LoserLowerKept(query, target, map) ==
    IF Get(map, query) > Get(map, target) THEN query ELSE target

Loser(query, target, map) ==
    IF Get(map, query) > Get(map, target) THEN target ELSE query

\* len(valid_structures) <= 1
TooFewValidLT(valid) == Cardinality(valid) < 1

TooFewValid(valid) == Cardinality(valid) <= 1

NoSummary == [kind |-> "none yet"]

-----------------------------------------------------------------------------
(* Initial states                                                          *)

GroupIdle ==
    /\ args_tm_threshold = DEFAULT_TM_THRESHOLD
    /\ struct_list = {}
    /\ pdb_files = {}
    /\ npy_files = {}
    /\ pc = "idle"
    /\ tm_threshold = DEFAULT_TM_THRESHOLD
    /\ pdb_tmp = FALSE
    /\ valid_structures = {}
    /\ oracle_calls = 0
    /\ oracle_outcome = "none"
    /\ rows_read = 0
    /\ last_row = NoRow
    /\ rows_above = FALSE
    /\ redundant_pairs = <<>>
    /\ completeness = <<>>
    /\ struct_priority_map = <<>>
    /\ idx = 1
    /\ to_remove = {}
    /\ pending = {}
    /\ removed_pdb = {}
    /\ removed_npy = {}
    /\ removed_details = {}
    /\ summary = NoSummary

PrioIdle ==
    /\ prio_in = <<>>
    /\ prio_out = <<>>

CsvIdle ==
    /\ csv_file = <<>>
    /\ leftover_files = {}
    /\ outputs = <<>>

\* main up to the dispatch of one group: args parsed, the group's names
\* collected; every structure has its .npy, a .pdb may have gone since.
Init ==
    /\ args_tm_threshold \in ArgThresholds
    /\ struct_list \in (SUBSET Structs) \ {{}}
    /\ pdb_files \in SUBSET struct_list
    /\ npy_files = struct_list
    /\ pc = "start"
    /\ tm_threshold = DEFAULT_TM_THRESHOLD
    /\ pdb_tmp = FALSE
    /\ valid_structures = {}
    /\ oracle_calls = 0
    /\ oracle_outcome = "none"
    /\ rows_read = 0
    /\ last_row = NoRow
    /\ rows_above = FALSE
    /\ redundant_pairs = <<>>
    /\ completeness = <<>>
    /\ struct_priority_map = <<>>
    /\ idx = 1
    /\ to_remove = {}
    /\ pending = {}
    /\ removed_pdb = {}
    /\ removed_npy = {}
    /\ removed_details = {}
    /\ summary = NoSummary
    /\ PrioIdle
    /\ CsvIdle

-----------------------------------------------------------------------------
(* remove_redundant_data, entry                                            *)

\* Lines 203-209: the early return for a group of one, else the call of
\* run_foldseek_comparison(struct_list, path, tmp_base_dir), which binds
\* tm_threshold to its default.
RRD_Start ==
    /\ pc = "start"
    /\ IF Cardinality(struct_list) <= 1
       THEN /\ summary' = [kind |-> "nothing to compare"]
            /\ pc' = "done"
       ELSE /\ pc' = "mkdir"
            /\ UNCHANGED summary
    /\ tm_threshold' = DEFAULT_TM_THRESHOLD
    /\ UNCHANGED <<args_tm_threshold, struct_list, pdb_files, npy_files, pdb_tmp,
                   valid_structures, oracle_calls, oracle_outcome, rows_read,
                   last_row, rows_above, redundant_pairs, completeness, struct_priority_map,
                   idx, to_remove, pending, removed_pdb, removed_npy,
                   removed_details>>
    /\ UNCHANGED <<prioVars, csvVars>>

(* run_foldseek_comparison                                                 *)

\* Lines 88-98: pdb_tmp.mkdir / pdb_dir.mkdir; an OSError leaves the call.
RFC_Mkdir ==
    /\ pc = "mkdir"
    /\ \E ok \in BOOLEAN :
         IF ok THEN pdb_tmp' = TRUE /\ pc' = "stage"
               ELSE pdb_tmp' = FALSE /\ pc' = "raised"
    /\ UNCHANGED <<args_tm_threshold, struct_list, pdb_files, npy_files,
                   tm_threshold, valid_structures, oracle_calls, oracle_outcome,
                   rows_read, last_row, rows_above, redundant_pairs, completeness,
                   struct_priority_map, idx, to_remove, pending, removed_pdb,
                   removed_npy, removed_details, summary>>
    /\ UNCHANGED <<prioVars, csvVars>>

\* Lines 100-113: the symlink loop and the early return.  symlink_to may
\* raise (FileExistsError on a stale workspace, OSError), uncaught.
RFC_Stage ==
    /\ pc = "stage"
    /\ \E ok \in BOOLEAN :
         IF ok
         THEN /\ valid_structures' = struct_list \cap pdb_files
              /\ IF TooFewValid(valid_structures')
                 THEN /\ pdb_tmp' = FALSE
                      /\ to_remove' = {}
                      /\ pending' = {}
                      /\ pc' = "remove"
                 ELSE /\ pc' = "oracle"
                      /\ UNCHANGED <<pdb_tmp, to_remove, pending>>
         ELSE /\ struct_list \cap pdb_files # {}
              /\ pc' = "raised"
              /\ UNCHANGED <<valid_structures, pdb_tmp, to_remove, pending>>
    /\ UNCHANGED <<args_tm_threshold, struct_list, pdb_files, npy_files,
                   tm_threshold, oracle_calls, oracle_outcome, rows_read, last_row, rows_above,
                   redundant_pairs, completeness, struct_priority_map, idx,
                   removed_pdb, removed_npy, removed_details, summary>>
    /\ UNCHANGED <<prioVars, csvVars>>

\* Lines 115-143: subprocess.run(cmd, check=True).  "nostart": the process
\* cannot be started (FileNotFoundError / OSError, not caught by the except
\* clause); "nonzero": CalledProcessError; "noreport": exit 0 without a
\* <result>_report file; "report": exit 0 with a report.
RFC_Oracle ==
    /\ pc = "oracle"
    /\ oracle_calls' = oracle_calls + 1
    /\ \E outcome \in {"nostart", "nonzero", "noreport", "report"} :
         /\ oracle_outcome' = outcome
         /\ IF outcome = "nostart"
            THEN /\ pc' = "raised"
                 /\ UNCHANGED <<pdb_tmp, to_remove, pending>>
            ELSE IF outcome \in {"nonzero", "noreport"}
            THEN /\ pdb_tmp' = FALSE
                 /\ to_remove' = {}
                 /\ pending' = {}
                 /\ pc' = "remove"
            ELSE /\ pc' = "read"
                 /\ UNCHANGED <<pdb_tmp, to_remove, pending>>
    /\ UNCHANGED <<args_tm_threshold, struct_list, pdb_files, npy_files,
                   tm_threshold, valid_structures, rows_read, last_row, rows_above,
                   redundant_pairs, completeness, struct_priority_map, idx,
                   removed_pdb, removed_npy, removed_details, summary>>
    /\ UNCHANGED <<prioVars, csvVars>>

\* Lines 148-169: one iteration of `for line in f`.
RFC_ReadRow ==
    /\ pc = "read"
    /\ rows_read < MaxRows
    /\ \E row \in ReportRows(valid_structures) :
         LET edge == Appends(row, tm_threshold) IN
         /\ last_row' = [row |-> row, edge |-> edge]
         /\ rows_above' = (rows_above \/ (/\ row.kind = "ok"
                                           /\ row.query # row.target
                                           /\ (row.tm[1] > tm_threshold
                                                 \/ row.tm[2] > tm_threshold)))
         /\ redundant_pairs' =
              IF edge
              THEN Append(redundant_pairs,
                          [query |-> row.query, target |-> row.target,
                           max_tm |-> Max(row.tm[1], row.tm[2])])
              ELSE redundant_pairs
    /\ rows_read' = rows_read + 1
    /\ UNCHANGED <<args_tm_threshold, struct_list, pdb_files, npy_files, pc,
                   tm_threshold, pdb_tmp, valid_structures, oracle_calls,
                   oracle_outcome, completeness, struct_priority_map, idx,
                   to_remove, pending, removed_pdb, removed_npy, removed_details,
                   summary>>
    /\ UNCHANGED <<prioVars, csvVars>>

\* Lines 148-149: open() or the iteration raises (OSError,
\* UnicodeDecodeError), uncaught.
RFC_ReadFails ==
    /\ pc = "read"
    /\ pc' = "raised"
    /\ UNCHANGED <<args_tm_threshold, struct_list, pdb_files, npy_files,
                   tm_threshold, pdb_tmp, valid_structures, oracle_calls,
                   oracle_outcome, rows_read, last_row, rows_above, redundant_pairs,
                   completeness, struct_priority_map, idx, to_remove, pending,
                   removed_pdb, removed_npy, removed_details, summary>>
    /\ UNCHANGED <<prioVars, csvVars>>

\* Lines 171-173: end of the report; the priority map is computed from what
\* get_structure_completeness reads for each valid structure now.
RFC_Priorities ==
    /\ pc = "read"
    /\ \E comp \in [valid_structures -> Completeness] :
         /\ completeness' = comp
         /\ struct_priority_map' =
              [s \in valid_structures |-> structure_priority(s, comp[s])]
    /\ to_remove' = {}
    /\ idx' = 1
    /\ rows_read' = 0
    /\ last_row' = NoRow
    /\ pc' = "resolve"
    /\ UNCHANGED <<args_tm_threshold, struct_list, pdb_files, npy_files,
                   tm_threshold, pdb_tmp, valid_structures, oracle_calls,
                   oracle_outcome, rows_above, redundant_pairs, pending, removed_pdb,
                   removed_npy, removed_details, summary>>
    /\ UNCHANGED <<prioVars, csvVars>>

\* Lines 175-183: one iteration of the greedy loop.
RFC_Resolve ==
    /\ pc = "resolve"
    /\ idx <= Len(redundant_pairs)
    /\ LET p == redundant_pairs[idx] IN
         to_remove' =
           IF Skip(p.query, p.target, to_remove)
           THEN to_remove
           ELSE to_remove \cup {Loser(p.query, p.target, struct_priority_map)}
    /\ idx' = idx + 1
    /\ UNCHANGED <<args_tm_threshold, struct_list, pdb_files, npy_files, pc,
                   tm_threshold, pdb_tmp, valid_structures, oracle_calls,
                   oracle_outcome, rows_read, last_row, rows_above, redundant_pairs,
                   completeness, struct_priority_map, pending, removed_pdb,
                   removed_npy, removed_details, summary>>
    /\ UNCHANGED <<prioVars, csvVars>>

\* Lines 185-188: rmtree and return to_remove.  The priority map goes out of
\* scope; redundant_pairs is kept as the record of what the call found.
RFC_Return ==
    /\ pc = "resolve"
    /\ idx > Len(redundant_pairs)
    /\ pdb_tmp' = FALSE
    /\ pending' = to_remove
    /\ UNCHANGED redundant_pairs
    /\ completeness' = <<>>
    /\ struct_priority_map' = <<>>
    /\ idx' = 1
    /\ pc' = "remove"
    /\ UNCHANGED <<args_tm_threshold, struct_list, pdb_files, npy_files,
                   tm_threshold, valid_structures, oracle_calls, oracle_outcome,
                   rows_read, last_row, rows_above, to_remove, removed_pdb, removed_npy,
                   removed_details, summary>>
    /\ UNCHANGED <<prioVars, csvVars>>

(* remove_redundant_data, after the call                                   *)

\* Lines 213-225: one iteration of `for struct in to_remove`.  "ok": both
\* os.remove succeed; "pdb raises": os.remove(pdb_file) raises; "npy raises":
\* os.remove(npy_file) raises after the .pdb is gone.
RRD_Remove ==
    /\ pc = "remove"
    /\ pending # {}
    /\ \E struct \in pending, outcome \in {"ok", "pdb raises", "npy raises"} :
         /\ pending' = pending \ {struct}
         /\ outcome = "pdb raises" => struct \in pdb_files
         /\ outcome = "npy raises" => struct \in npy_files
         /\ IF outcome = "pdb raises"
            THEN UNCHANGED <<pdb_files, npy_files, removed_pdb, removed_npy,
                             removed_details>>
            ELSE /\ pdb_files' = pdb_files \ {struct}
                 /\ removed_pdb' = removed_pdb \cup ({struct} \cap pdb_files)
                 /\ IF outcome = "npy raises"
                    THEN UNCHANGED <<npy_files, removed_npy, removed_details>>
                    ELSE /\ npy_files' = npy_files \ {struct}
                         /\ removed_npy' = removed_npy \cup ({struct} \cap npy_files)
                         /\ removed_details' = removed_details \cup {struct}
    /\ UNCHANGED <<args_tm_threshold, struct_list, pc, tm_threshold, pdb_tmp,
                   valid_structures, oracle_calls, oracle_outcome, rows_read,
                   last_row, rows_above, redundant_pairs, completeness, struct_priority_map,
                   idx, to_remove, summary>>
    /\ UNCHANGED <<prioVars, csvVars>>

\* Lines 227-230: the summary string.
RRD_Summary ==
    /\ pc = "remove"
    /\ pending = {}
    /\ summary' =
         IF removed_details # {}
         THEN [kind |-> "removed", k |-> Cardinality(removed_details),
               n |-> Cardinality(struct_list), ids |-> removed_details]
         ELSE [kind |-> "no redundancy found", n |-> Cardinality(struct_list)]
    /\ pc' = "done"
    /\ UNCHANGED <<args_tm_threshold, struct_list, pdb_files, npy_files,
                   tm_threshold, pdb_tmp, valid_structures, oracle_calls,
                   oracle_outcome, rows_read, last_row, rows_above, redundant_pairs,
                   completeness, struct_priority_map, idx, to_remove, pending,
                   removed_pdb, removed_npy, removed_details>>
    /\ UNCHANGED <<prioVars, csvVars>>

-----------------------------------------------------------------------------
(* structure_priority on its own                                           *)

PrioInputs ==
    [type : {"BIO"}, num : PrioNums, total : PrioTotals, missing : PrioMissing]

PrioInit ==
    /\ GroupIdle
    /\ CsvIdle
    /\ prio_in \in [bio : PrioInputs,
                    asu : [type : {"ASU"}, num : PrioNums, total : PrioTotals,
                           missing : PrioMissing]]
    /\ prio_out = <<>>

\* structure_priority(struct_name, path) for a BIO and an ASU structure of
\* one group.
Prio_Score ==
    /\ prio_in # <<>>
    /\ prio_out = <<>>
    /\ prio_out' =
         [bio |-> structure_priority([type |-> prio_in.bio.type, num |-> prio_in.bio.num],
                                     <<prio_in.bio.total, prio_in.bio.missing>>),
          asu |-> structure_priority([type |-> prio_in.asu.type, num |-> prio_in.asu.num],
                                     <<prio_in.asu.total, prio_in.asu.missing>>)]
    /\ UNCHANGED prio_in
    /\ UNCHANGED <<groupVars, csvVars>>

PrioNext == Prio_Score

SpecPriority == PrioInit /\ [][PrioNext]_vars

-----------------------------------------------------------------------------
(* main, lines 322-336: the CSV update                                     *)

\* Python's string order on the names 1ABC-ASU<n> and 1ABC-BIO<n>, n one digit.
NameLess(a, b) ==
    \/ a.type = "ASU" /\ b.type = "BIO"
    \/ a.type = b.type /\ a.num < b.num

\* Order of the Bioassembly cells under sort_values: NaN last.
BioLess(a, b) == a # NaN /\ (b = NaN \/ a < b)

\* by=["Name", "Bioassembly"]
KeyLess(r, q) ==
    \/ NameLess(r.Name, q.Name)
    \/ r.Name = q.Name /\ BioLess(r.Bioassembly, q.Bioassembly)

\* The tables main may find in csv_file: each line has a Name, a Bioassembly
\* and the rest of its columns, which tell the lines apart.
CsvFiles ==
    UNION {{[i \in 1..n |-> [Name |-> f[i][1], Bioassembly |-> f[i][2], rest |-> <<i>>]] :
               f \in [1..n -> Structs \X BioValues]} : n \in 0..MaxCsvRows}

\* pd.read_csv: the lines become rows labelled 0, 1, ... (a RangeIndex); an
\* unnamed leading column of the file is one more data column.
read_csv(file) ==
    [i \in 1..Len(file) |-> [label |-> i - 1, Name |-> file[i].Name,
                             Bioassembly |-> file[i].Bioassembly,
                             rest |-> file[i].rest]]

\* processed_df[processed_df["Name"].isin(leftover_files)]
RECURSIVE isin_filter(_, _)
isin_filter(df, names) ==
    IF df = <<>> THEN <<>>
    ELSE IF Head(df).Name \in names
         THEN <<Head(df)>> \o isin_filter(Tail(df), names)
         ELSE isin_filter(Tail(df), names)

\* r placed behind every row of the sorted frame whose key is not above r's.
RECURSIVE InsertRow(_, _)
InsertRow(sorted, r) ==
    IF sorted = <<>> THEN <<r>>
    ELSE IF KeyLess(r, sorted[Len(sorted)])
         THEN Append(InsertRow(SubSeq(sorted, 1, Len(sorted) - 1), r), sorted[Len(sorted)])
         ELSE Append(sorted, r)

\* processed_df.sort_values(by=["Name", "Bioassembly"]): pandas sorts on
\* several keys with a stable sort, so rows of equal key keep their order.
RECURSIVE sort_values(_)
sort_values(df) ==
    IF df = <<>> THEN <<>>
    ELSE InsertRow(sort_values(SubSeq(df, 1, Len(df) - 1)), df[Len(df)])

\* to_csv(new_csv) without index=False: the row labels are written as an
\* unnamed leading column.
to_csv_with_index(df) ==
    [i \in 1..Len(df) |-> [Name |-> df[i].Name, Bioassembly |-> df[i].Bioassembly,
                           rest |-> <<df[i].label>> \o df[i].rest]]

\* processed_df.to_csv(new_csv, index=False)
to_csv(df) ==
    [i \in 1..Len(df) |-> [Name |-> df[i].Name, Bioassembly |-> df[i].Bioassembly,
                           rest |-> df[i].rest]]

\* Lines 330-336 on the table `file` with the surviving names `names`.
UpdateCsv(file, names) ==
    to_csv(sort_values(isin_filter(read_csv(file), names)))

CsvInit ==
    /\ GroupIdle
    /\ PrioIdle
    /\ csv_file \in CsvFiles
    /\ leftover_files \in SUBSET Structs
    /\ outputs = <<>>

\* The update of main, first on csv_file and then again on the table it
\* wrote, with the same leftover_files.
Main_UpdateCsv ==
    /\ Len(outputs) < 2
    /\ outputs' =
         Append(outputs,
                UpdateCsv(IF outputs = <<>> THEN csv_file ELSE outputs[Len(outputs)],
                          leftover_files))
    /\ UNCHANGED <<csv_file, leftover_files>>
    /\ UNCHANGED <<groupVars, prioVars>>

CsvNext == Main_UpdateCsv

SpecCsv == CsvInit /\ [][CsvNext]_vars

-----------------------------------------------------------------------------
(* The group pipeline                                                      *)

Next ==
    \/ RRD_Start
    \/ RFC_Mkdir
    \/ RFC_Stage
    \/ RFC_Oracle
    \/ RFC_ReadRow
    \/ RFC_ReadFails
    \/ RFC_Priorities
    \/ RFC_Resolve
    \/ RFC_Return
    \/ RRD_Remove
    \/ RRD_Summary

Spec == Init /\ [][Next]_vars

-----------------------------------------------------------------------------
(* Properties of the group pipeline, checked under Spec                    *)

\* The greedy loop has consumed every pair.
PassFinished == pc = "resolve" /\ idx > Len(redundant_pairs)

\* Some pair of redundant_pairs joins a and b, in either direction.
Connected(a, b) ==
    \E i \in 1..Len(redundant_pairs) :
        {redundant_pairs[i].query, redundant_pairs[i].target} = {a, b}

\* Every two different valid structures are joined by a pair.
IsClique ==
    \A a, b \in valid_structures : a # b => Connected(a, b)

\* The .pdb files the group had when it was dispatched.
InitialPdbFiles == pdb_files \cup removed_pdb

\* Structures of which os.remove deleted at least one file.
DeletedIds == removed_pdb \cup removed_npy

\* The completeness values of the 1ABC scenario.
ScenarioCompleteness ==
    /\ valid_structures = {BIO1, BIO2, ASU1}
    /\ completeness[BIO1] = <<100, 0>>
    /\ completeness[BIO2] = <<100, 5>>
    /\ completeness[ASU1] = <<100, 0>>

\* C1: when the greedy pass has finished on 3 compared structures whose pairs
\* form a clique (each two joined by at least one pair, in any order and
\* direction), to_remove holds exactly 2 of them, the retained structure has
\* the highest priority score of the three, and in the 1ABC scenario
\* to_remove = {1ABC-BIO2, 1ABC-ASU1}.
C1_CliqueKeepsHighest ==
    (PassFinished /\ Cardinality(valid_structures) = 3 /\ IsClique) =>
        /\ Cardinality(to_remove) = 2
        /\ to_remove \subseteq valid_structures
        /\ \A r \in valid_structures \ to_remove : \A u \in valid_structures :
               struct_priority_map[r] >= struct_priority_map[u]
        /\ ScenarioCompleteness => to_remove = {BIO2, ASU1}

C1_Witness ==
    /\ PassFinished
    /\ IsClique
    /\ ScenarioCompleteness
    /\ redundant_pairs[1].query = ASU1
    /\ redundant_pairs[1].target = BIO2
    /\ to_remove = {BIO2, ASU1}

\* C2: whenever run_foldseek_comparison has been left (by return or by an
\* exception), the group's temporary workspace does not exist.
C2_WorkspaceRemoved ==
    pc \in {"remove", "done", "raised"} => ~pdb_tmp

\* C3: when the oracle invocation failed (could not start, exited non-zero,
\* or produced no report), the call does not raise, the removal set is
\* empty, no file is deleted and the summary is 'no redundancy found'.
C3_OracleFailSoft ==
    oracle_outcome \in {"nostart", "nonzero", "noreport"} =>
        /\ pc # "raised"
        /\ to_remove = {}
        /\ DeletedIds = {}
        /\ pc = "done" => summary.kind = "no redundancy found"

\* C5: when remove_redundant_data has returned, every structure with a
\* deleted file is listed in the summary, and k of 'removed k/n' is the
\* number of such structures.
C5_NoUnreportedDeletion ==
    (pc = "done" /\ DeletedIds # {}) =>
        /\ summary.kind = "removed"
        /\ DeletedIds \subseteq summary.ids
        /\ summary.k = Cardinality(DeletedIds)

\* C6 as stated: for a group of at most 1 structure, and likewise for a
\* group in which at most 1 structure has a geometry file, the oracle is
\* never invoked, the removal set is empty, nothing is deleted and the
\* report is 'nothing to compare'.
C6_Original ==
    (Cardinality(struct_list) <= 1 \/ Cardinality(InitialPdbFiles) <= 1) =>
        /\ oracle_calls = 0
        /\ to_remove = {}
        /\ DeletedIds = {}
        /\ pc = "done" => summary.kind = "nothing to compare"

\* C6 amended: in both cases the oracle is never invoked, the removal set is
\* empty and nothing is deleted; the report is 'nothing to compare' for a
\* group of at most 1 structure, and 'no redundancy found' for a group of 2
\* or more structures of which at most 1 has a geometry file.
C6_SingleMember ==
    (Cardinality(struct_list) <= 1 \/ Cardinality(InitialPdbFiles) <= 1) =>
        /\ oracle_calls = 0
        /\ oracle_outcome = "none"
        /\ to_remove = {}
        /\ DeletedIds = {}
        /\ pdb_files = InitialPdbFiles
        /\ pc = "done" =>
             summary.kind = IF Cardinality(struct_list) <= 1
                            THEN "nothing to compare"
                            ELSE "no redundancy found"

C6_Witness ==
    /\ pc = "done"
    /\ Cardinality(struct_list) = 3
    /\ Cardinality(InitialPdbFiles) = 1
    /\ valid_structures = InitialPdbFiles
    /\ oracle_calls = 0
    /\ summary.kind = "no redundancy found"

\* C7: a report line whose larger score is at or below tm_threshold, or
\* whose query and target are the same id, adds no pair; every pair has a
\* score strictly above tm_threshold and two different ids; and when no
\* line of the report was above the threshold, the removal set is empty, no
\* file is deleted and the summary is 'no redundancy found'.
C7_StrictThreshold ==
    /\ (/\ last_row.row.kind = "ok"
        /\ \/ last_row.row.query = last_row.row.target
           \/ (last_row.row.tm[1] <= tm_threshold /\ last_row.row.tm[2] <= tm_threshold))
         => ~last_row.edge
    /\ \A i \in 1..Len(redundant_pairs) :
         /\ redundant_pairs[i].max_tm > tm_threshold
         /\ redundant_pairs[i].query # redundant_pairs[i].target
    /\ (oracle_outcome = "report" /\ ~rows_above) =>
         /\ redundant_pairs = <<>>
         /\ to_remove = {}
         /\ DeletedIds = {}
         /\ pdb_files = InitialPdbFiles
         /\ pc = "done" => summary.kind = "no redundancy found"

C7_Witness ==
    /\ pc = "read"
    /\ rows_read = MaxRows
    /\ ~rows_above
    /\ last_row.row.kind = "ok"
    /\ last_row.row.query # last_row.row.target
    /\ Max(last_row.row.tm[1], last_row.row.tm[2]) = tm_threshold
    /\ redundant_pairs = <<>>

\* C9: a well-formed report line becomes a redundancy pair exactly when its
\* ids differ and its larger score exceeds the threshold given with
\* --tm_threshold.
C9_ConfiguredThresholdApplied ==
    last_row.row.kind = "ok" =>
        (last_row.edge <=>
            /\ last_row.row.query # last_row.row.target
            /\ Max(last_row.row.tm[1], last_row.row.tm[2]) > args_tm_threshold)

\* C10: after every prefix of the greedy pass some compared structure of
\* maximal priority is not in to_remove (so to_remove never holds every
\* compared structure), and once the pass has finished no pair has both of
\* its ends retained.
C10_GreedyInvariant ==
    pc = "resolve" =>
        /\ \E m \in valid_structures \ to_remove : \A u \in valid_structures :
               struct_priority_map[m] >= struct_priority_map[u]
        /\ to_remove \subseteq valid_structures
        /\ PassFinished =>
             \A i \in 1..Len(redundant_pairs) :
                 \/ redundant_pairs[i].query \in to_remove
                 \/ redundant_pairs[i].target \in to_remove

\* A finished pass over a graph that is no clique, with a priority tie
\* between the ends of its first pair and two structures removed.
C10_Witness ==
    /\ PassFinished
    /\ Cardinality(valid_structures) = 3
    /\ ~IsClique
    /\ Len(redundant_pairs) >= 2
    /\ struct_priority_map[redundant_pairs[1].query]
         = struct_priority_map[redundant_pairs[1].target]
    /\ Cardinality(to_remove) = 2

-----------------------------------------------------------------------------
(* Property of structure_priority, checked under SpecPriority              *)

\* 500 x difference in total residues minus 100 x difference in missing
\* residues, in favour of the ASU structure.
AsuAdvantage ==
    W_RESIDUE * (prio_in.asu.total - prio_in.bio.total)
        - W_MISSING * (prio_in.asu.missing - prio_in.bio.missing)

\* C4: whenever the completeness advantage of the ASU structure is smaller
\* than the bonus gap (1000 - 500), the BIO structure scores strictly
\* higher, whatever the instance numbers.
C4_TypePreference ==
    (prio_out # <<>> /\ AsuAdvantage < BONUS_BIO - BONUS_ASU) =>
        prio_out.bio > prio_out.asu

-----------------------------------------------------------------------------
(* Property of the CSV update, checked under SpecCsv                       *)

====
